---------------------------- MODULE Spec2Model ----------------------------
(***************************************************************************)
(* A QuanTile tile (MicroPython build): the request loop that polls the    *)
(* upstream neighbour, the service loop that answers the downstream        *)
(* neighbour, the framed serial protocol they speak and the single-qubit   *)
(* state model they transport.                                             *)
(*                                                                         *)
(* Numbers.  Time is counted in milliseconds.  Angles are integers in      *)
(* units of pi/8 (PI = 8); the float arithmetic of the program is modelled *)
(* exactly on that grid, i.e. "within tolerance" in the program is         *)
(* equality here.  Complex amplitudes are elements of Z[w], w = e^(i pi/4),*)
(* written <<a, b, c, d>> = a + b w + c w^2 + d w^3, taken up to a positive*)
(* real factor (setStandardBasisState normalises its argument) and         *)
(* tagged with a global phase g in units of pi/8.                          *)
(***************************************************************************)
EXTENDS Integers, Sequences, FiniteSets, TLC

(***************************************************************************)
(* Bounds of the exploration (environment budgets).                        *)
(***************************************************************************)
MaxUpFrames == 2
MaxDownFrames == 2
TileUpFrames == 1
TileDownFrames == 2
\* the history counter of consecutive failed exchanges stops counting here
MaxMisses == 5
MaxStrayChunks == 3
MaxStrayServerChunks == 5
\* QuStates objects constructed
MaxContainers == 2
\* requests the downstream neighbour sends to a tile it reconfigures
RetypeFrames == 3
\* calls of start() that create threads
MaxStarts == 2

(***************************************************************************)
(* Wire constants.                                                         *)
(***************************************************************************)
_MsgHeader == <<127, 255, 255, 255>>

\* opcodes that take the value of another command
QuantumStateRequest_asUnknown == 2 + 2
ComponentTypeRequest_asChange == 2 + 1
QuantumStateRequest == 1
ComponentTypeRequest == 2
ComponentTypeChangeRequest == 3
QuantumStateResponse == 129
ComponentTypeResponse == 130

THETA_PHI == 1

(***************************************************************************)
(* Angles and the 32-bit float encoding.  NaN stands for a float that is   *)
(* not a number.  FloatBytes is the little-endian IEEE-754 single of       *)
(* k * pi / 8.                                                             *)
(***************************************************************************)
PI == 8
NaN == 1000

FloatBytes ==
  [k \in -8..16 |->
     CASE k = -8 -> <<219, 15, 73, 192>>
       [] k = -7 -> <<223, 237, 47, 192>>
       [] k = -6 -> <<228, 203, 22, 192>>
       [] k = -5 -> <<209, 83, 251, 191>>
       [] k = -4 -> <<219, 15, 201, 191>>
       [] k = -3 -> <<228, 203, 150, 191>>
       [] k = -2 -> <<219, 15, 73, 191>>
       [] k = -1 -> <<219, 15, 201, 190>>
       [] k = 0 -> <<0, 0, 0, 0>>
       [] k = 1 -> <<219, 15, 201, 62>>
       [] k = 2 -> <<219, 15, 73, 63>>
       [] k = 3 -> <<228, 203, 150, 63>>
       [] k = 4 -> <<219, 15, 201, 63>>
       [] k = 5 -> <<209, 83, 251, 63>>
       [] k = 6 -> <<228, 203, 22, 64>>
       [] k = 7 -> <<223, 237, 47, 64>>
       [] k = 8 -> <<219, 15, 73, 64>>
       [] k = 9 -> <<214, 49, 98, 64>>
       [] k = 10 -> <<209, 83, 123, 64>>
       [] k = 11 -> <<230, 58, 138, 64>>
       [] k = 12 -> <<228, 203, 150, 64>>
       [] k = 13 -> <<226, 92, 163, 64>>
       [] k = 14 -> <<223, 237, 175, 64>>
       [] k = 15 -> <<221, 126, 188, 64>>
       [] k = 16 -> <<219, 15, 201, 64>>]

\* the float written most significant byte first
pack_bigEndian(value) ==
  IF value = NaN THEN <<127, 192, 0, 0>>
  ELSE <<FloatBytes[value][4], FloatBytes[value][3], FloatBytes[value][2],
         FloatBytes[value][1]>>

\* struct.pack('f', value): a NaN is written as the quiet NaN 7FC00000.
pack(value) ==
  IF value = NaN THEN <<0, 0, 192, 127>> ELSE FloatBytes[value]

\* The value of bits exponent-all-ones (NaN or infinity) is NaN here; a word
\* whose exponent field is zero is a denormal, below 1e-38, i.e. 0.
unpack(word) ==
  IF \E k \in DOMAIN FloatBytes : FloatBytes[k] = word
    THEN CHOOSE k \in DOMAIN FloatBytes : FloatBytes[k] = word
    ELSE IF word[4] % 128 = 127 /\ word[3] >= 128 THEN NaN
    ELSE IF word[4] % 128 = 0 /\ word[3] < 128 THEN 0
    ELSE NaN


(***************************************************************************)
(* Exact complex arithmetic.  An element of Z[w], w = e^(i pi/4), is the   *)
(* tuple <<a, b, c, d>> = a + b w + c w^2 + d w^3 with w^4 = -1; the reals *)
(* among them are a + b sqrt(2) = <<a, b, 0, -b>>.                         *)
(***************************************************************************)
R(n) == <<n, 0, 0, 0>>
I1 == <<0, 0, 1, 0>>
W1 == <<0, 1, 0, 0>>
ZERO == R(0)
ONE == R(1)
\* tan(pi/8) = sqrt(2) - 1
TAN_PI_DIV8 == <<-1, 1, 0, -1>>

cAdd(x, y) == [k \in 1..4 |-> x[k] + y[k]]
cNeg(x) == [k \in 1..4 |-> -x[k]]
cMul(x, y) ==
  << x[1]*y[1] - x[2]*y[4] - x[3]*y[3] - x[4]*y[2],
     x[1]*y[2] + x[2]*y[1] - x[3]*y[4] - x[4]*y[3],
     x[1]*y[3] + x[2]*y[2] + x[3]*y[1] - x[4]*y[4],
     x[1]*y[4] + x[2]*y[3] + x[3]*y[2] + x[4]*y[1] >>
cConj(x) == <<x[1], -x[4], -x[3], -x[2]>>
\* w^k for k in 0..7
cUnit(k) ==
  CASE k = 0 -> <<1, 0, 0, 0>>
    [] k = 1 -> <<0, 1, 0, 0>>
    [] k = 2 -> <<0, 0, 1, 0>>
    [] k = 3 -> <<0, 0, 0, 1>>
    [] k = 4 -> <<-1, 0, 0, 0>>
    [] k = 5 -> <<0, -1, 0, 0>>
    [] k = 6 -> <<0, 0, -1, 0>>
    [] k = 7 -> <<0, 0, 0, -1>>

\* p + q sqrt(2) > 0
PosReal2(p, q) ==
  \/ p > 0 /\ q >= 0
  \/ p >= 0 /\ q > 0
  \/ p > 0 /\ q < 0 /\ p*p > 2*q*q
  \/ p < 0 /\ q > 0 /\ 2*q*q > p*p
IsPosReal(x) == x[3] = 0 /\ x[4] = -x[2] /\ PosReal2(x[1], x[2])

\* |x|^2 as the pair <<p, q>> = p + q sqrt(2)
cAbs2(x) == LET n == cMul(x, cConj(x)) IN <<n[1], n[2]>>
rAdd(u, v) == <<u[1] + v[1], u[2] + v[2]>>
rMul(u, v) == <<u[1]*v[1] + 2*u[2]*v[2], u[1]*v[2] + u[2]*v[1]>>

\* cmath.phase(x) in units of pi/8, in (-PI, PI]; cmath.phase(0) = 0.
cPhase(x) ==
  IF x = ZERO THEN 0
  ELSE LET k == CHOOSE j \in -3..4 : IsPosReal(cMul(x, cUnit((8 - j) % 8)))
       IN 2 * k

\* an angle taken from math.acos(c) without the factor 2, to the nearest
\* of 0 and pi/2
TwoAcos_single(num, den) == IF num = den THEN 0 ELSE 4

\* 2 * math.acos(c) in units of pi/8, for c >= 0 given by c^2 = num / den.
TwoAcos(num, den) ==
  CASE num = den -> 0
    [] rMul(<<4, 0>>, num) = rMul(<<2, 1>>, den) -> 2
    [] rMul(<<2, 0>>, num) = den -> 4
    [] rMul(<<4, 0>>, num) = rMul(<<2, -1>>, den) -> 6
    [] num = <<0, 0>> -> 8

\* math.cos(t / 2), cmath.exp(1j * p) * math.sin(t / 2) for t in 0..PI, up to
\* one common positive factor.
HalfAngle(t) ==
  CASE t = 0 -> <<ONE, ZERO>>
    [] t = 2 -> <<ONE, TAN_PI_DIV8>>
    [] t = 4 -> <<ONE, ONE>>
    [] t = 6 -> <<TAN_PI_DIV8, ONE>>
    [] t = 8 -> <<ZERO, ONE>>

(***************************************************************************)
(* The gate catalog.  GateTypes maps a name to its wire id; GateOperators  *)
(* maps a name to its matrix "value" (rows of Z[w] entries, up to one      *)
(* positive real factor) and the global phase "g" (units of pi/8) that     *)
(* multiplies it.                                                          *)
(***************************************************************************)
GateTypes ==
  [ UNDEFINED |-> 0, IDENTITY |-> 1, PAULI_X |-> 2, PAULI_Y |-> 3,
    PAULI_Z |-> 4, HADAMARD |-> 5, RX_PI_DIV2 |-> 6, RY_PI_DIV2 |-> 7,
    RZ_PI_DIV2 |-> 8, RX_PI_DIV4 |-> 9, RY_PI_DIV4 |-> 10,
    RZ_PI_DIV4 |-> 11, PHASE |-> 14, TWIRL |-> 15, CONTROLLED_NOT |-> 65,
    CONTROLLED_Z |-> 66, SWAP |-> 67, TOFFOLI |-> 129 ]

IntMat(m) == [i \in DOMAIN m |-> [j \in DOMAIN m[i] |-> R(m[i][j])]]
Mat(g, value) == [g |-> g, value |-> value]

GateOperators ==
  [ IDENTITY |-> Mat(0, <<<<ONE, ZERO>>, <<ZERO, ONE>>>>),
    PAULI_X |-> Mat(0, <<<<ZERO, ONE>>, <<ONE, ZERO>>>>),
    PAULI_Y |-> Mat(0, <<<<ZERO, cNeg(I1)>>, <<I1, ZERO>>>>),
    PAULI_Z |-> Mat(0, <<<<ONE, ZERO>>, <<ZERO, R(-1)>>>>),
    HADAMARD |-> Mat(0, <<<<ONE, ONE>>, <<ONE, R(-1)>>>>),
    RX_PI_DIV2 |-> Mat(0, <<<<ONE, cNeg(I1)>>, <<cNeg(I1), ONE>>>>),
    RY_PI_DIV2 |-> Mat(0, <<<<ONE, R(-1)>>, <<ONE, ONE>>>>),
    RZ_PI_DIV2 |-> Mat(0, <<<<cUnit(7), ZERO>>, <<ZERO, W1>>>>),
    RX_PI_DIV4 |-> Mat(0, <<<<ONE, cNeg(cMul(I1, TAN_PI_DIV8))>>,
                            <<cNeg(cMul(I1, TAN_PI_DIV8)), ONE>>>>),
    RY_PI_DIV4 |-> Mat(0, <<<<ONE, cNeg(TAN_PI_DIV8)>>,
                            <<TAN_PI_DIV8, ONE>>>>),
    RZ_PI_DIV4 |-> Mat(-1, <<<<ONE, ZERO>>, <<ZERO, W1>>>>),
    PHASE |-> Mat(0, <<<<ONE, ZERO>>, <<ZERO, I1>>>>),
    TWIRL |-> Mat(0, <<<<ONE, ZERO>>, <<ZERO, W1>>>>),
    CONTROLLED_NOT |-> Mat(0, IntMat(<<<<1, 0, 0, 0>>,
                                       <<0, 1, 0, 0>>,
                                       <<0, 0, 0, 1>>,
                                       <<0, 0, 1, 0>>>>)),
    CONTROLLED_Z |-> Mat(0, IntMat(<<<<1, 0, 0, 0>>,
                                     <<0, 1, 0, 0>>,
                                     <<0, 0, 1, 0>>,
                                     <<0, 0, 0, -1>>>>)),
    SWAP |-> Mat(0, IntMat(<<<<1, 0, 0, 0>>,
                             <<0, 1, 0, 0>>,
                             <<0, 1, 0, 0>>,
                             <<0, 0, 0, 1>>>>)),
    TOFFOLI |-> Mat(0, IntMat(<<<<1, 0, 0, 0, 0, 0, 0, 0>>,
                                <<0, 1, 0, 0, 0, 0, 0, 0>>,
                                <<0, 0, 1, 0, 0, 0, 0, 0>>,
                                <<0, 0, 0, 1, 0, 0, 0, 0>>,
                                <<0, 0, 0, 0, 1, 0, 0, 0>>,
                                <<0, 0, 0, 0, 0, 1, 0, 0>>,
                                <<0, 0, 0, 0, 0, 0, 0, 1>>,
                                <<0, 0, 0, 0, 0, 0, 1, 0>>>>)) ]

\* eval('GateTypes.' + name) / eval('GateOperators.' + name) succeed
HasType(name) == name \in DOMAIN GateTypes
HasOperator(name) == name \in DOMAIN GateOperators

(***************************************************************************)
(* QuantumBitState.  A state is the pair <<theta, phi>>.                   *)
(***************************************************************************)
RECURSIVE WhileNegative(_)
WhileNegative(x) == IF x # NaN /\ x < 0 THEN WhileNegative(x + 2 * PI) ELSE x
RECURSIVE WhileAboveTwoPi(_)
WhileAboveTwoPi(x) ==
  IF x # NaN /\ x > 2 * PI THEN WhileAboveTwoPi(x - 2 * PI) ELSE x

\* QuantumBitState.__init__(theta, phi)
QuantumBitState(theta, phi) ==
  LET t1 == WhileAboveTwoPi(WhileNegative(theta))
      mirror == t1 # NaN /\ t1 > PI
      t2 == IF mirror THEN 2 * PI - t1 ELSE t1
      p1 == IF mirror /\ phi # NaN THEN phi + PI ELSE phi
  IN <<t2, WhileAboveTwoPi(WhileNegative(p1))>>

\* getStandardBasisState: <<alpha, beta>> up to one positive factor
getStandardBasisState(state) ==
  LET h == HalfAngle(state[1])
  IN <<h[1], cMul(cUnit((state[2] \div 2) % 8), h[2])>>

\* psnp.mat_vec_mul of a 2x2 matrix and an amplitude pair
mat_vec_mul(mat, st) ==
  [g |-> mat.g,
   v |-> << cAdd(cMul(mat.value[1][1], st[1]), cMul(mat.value[1][2], st[2])),
            cAdd(cMul(mat.value[2][1], st[1]), cMul(mat.value[2][2], st[2])) >>]

\* a phase in units of pi/8 brought into (-PI, PI]
PhaseRange(p) == ((p + PI - 1) % (2 * PI)) - (PI - 1)

\* setStandardBasisState(alpha, beta): the new <<theta, phi>>
setStandardBasisState(g, alpha, beta) ==
  LET theta == TwoAcos(cAbs2(alpha), rAdd(cAbs2(alpha), cAbs2(beta)))
      phi == IF alpha = ZERO
               THEN IF beta = ZERO THEN 0 ELSE PhaseRange(cPhase(beta) + g)
               ELSE cPhase(cMul(beta, cConj(alpha)))
  IN <<theta, IF theta = 0 THEN 0 ELSE phi>>

\* rotate(matrix, update=True): the state after the update
rotate(state, matrix) ==
  IF state[1] = NaN \/ state[2] = NaN
    THEN <<NaN, NaN>>
    ELSE CHOOSE updated \in
           {setStandardBasisState(new_state.g, new_state.v[1], new_state.v[2]) :
              new_state \in {mat_vec_mul(matrix, basis) :
                               basis \in {getStandardBasisState(state)}}} : TRUE

\* an operate that leaves the state as it is
operate_skipped(state, operator) == state

\* a dimension test that lets every operator through
OperatorIs2x2_any(operator) == TRUE

\* operate(operator): the dimension test, then rotate
OperatorIs2x2(operator) ==
  Len(operator.value) = 2 /\ Len(operator.value[1]) = 2
operate(state, operator) == rotate(state, operator)

(***************************************************************************)
(* Frames.                                                                 *)
(***************************************************************************)
\* a type request written without sendSync
TypeRequestFrame_noSync == <<ComponentTypeRequest, 0, 0, 0>>
StateRequestFrame == _MsgHeader \o <<QuantumStateRequest, 1, THETA_PHI, 0>>
TypeRequestFrame == _MsgHeader \o <<ComponentTypeRequest, 0, 0, 0>>
TypeChangeRequestFrame(type_id) ==
  _MsgHeader \o <<ComponentTypeChangeRequest, type_id, 0, 0>>
\* a response header that carries the opcode of a request
StateResponseHeader_asRequest == <<QuantumStateRequest, 1, THETA_PHI, 0>>
StateResponseHeader == <<QuantumStateResponse, 1, THETA_PHI, 0>>
TypeResponseHeader(type_id) == <<ComponentTypeResponse, type_id, 0, 0>>

(***************************************************************************)
(* Timing constants, in milliseconds.                                      *)
(***************************************************************************)
\* waitForPattern: waitTime = 0.001
waitTime == 1
\* requestInputState: waitStep = 0.005, connectionTimeout = 0.01
waitStep == 5
connectionTimeout == 10
\* waitForBytes: waitStep = 0.001, timeout = 0.01
bytesWaitStep == 1
bytesTimeout == 10
\* serviceRequest: waitForPattern(self.uart_out, self._MsgHeader), timeout 0.0
serviceSyncTimeout == 0
\* the byte counts serviceRequest and requestInputState wait for
CommandLength == 4
ResponseLength == 12

(***************************************************************************)
(* What the neighbours put on the links.  The upstream neighbour sends     *)
(* complete state responses for the states in Inputs, a frame with another *)
(* opcode, and a response cut short after theta; the downstream neighbour  *)
(* sends the three requests.  A chunk arrives in the receive buffer whole. *)
(***************************************************************************)
Inputs == {<<4, 0>>, <<4, 4>>}
StateResponseFrame(st) ==
  _MsgHeader \o StateResponseHeader \o pack(st[1]) \o pack(st[2])
WrongOpcodeFrame ==
  _MsgHeader \o TypeResponseHeader(1) \o pack(0) \o pack(0)
TruncatedFrame == _MsgHeader \o StateResponseHeader \o pack(4)
UpstreamChunks ==
  {StateResponseFrame(st) : st \in Inputs} \cup {WrongOpcodeFrame, TruncatedFrame}

\* ids carried by TypeChangeRequest: every member of GateTypes and an id the
\* catalog does not have
ChangeIds == {GateTypes[name] : name \in DOMAIN GateTypes} \cup {12}
\* a command with an opcode serviceRequest does not know
UnknownOpcodeFrame == _MsgHeader \o <<4, 0, 0, 0>>
DownstreamChunks ==
  {StateRequestFrame, TypeRequestFrame, UnknownOpcodeFrame}
    \cup {TypeChangeRequestFrame(id) : id \in ChangeIds}
\* the requests sent to a Comm whose owner registered only some callbacks
CommDownstreamChunks ==
  {StateRequestFrame, TypeRequestFrame, UnknownOpcodeFrame,
   TypeChangeRequestFrame(GateTypes.PAULI_X)}
\* the requests the downstream neighbour sends when both loops are observed
TileDownstreamChunks ==
  {StateRequestFrame, TypeRequestFrame,
   TypeChangeRequestFrame(GateTypes.PAULI_X),
   TypeChangeRequestFrame(GateTypes.CONTROLLED_NOT)}

\* a noisy link: single bytes of the sync pattern out of place, whole sync
\* patterns, and what follows a sync in a response or in a request
StrayUpstreamChunks ==
  {<<127>>, <<255>>, _MsgHeader, StateResponseHeader \o pack(4) \o pack(0)}
StrayDownstreamChunks ==
  {<<127>>, <<255>>, _MsgHeader, <<QuantumStateRequest, 1, THETA_PHI, 0>>}

\* the callbacks of Comm that serviceRequest uses
Hooks == {"getQuantumState", "getComponentType", "replaceOperator"}

\* gate.cfg contents main.py may find at startup
StartGates ==
  {"IDENTITY", "PAULI_X", "PAULI_Y", "PAULI_Z", "HADAMARD", "RX_PI_DIV2",
   "RY_PI_DIV2", "RZ_PI_DIV2", "RX_PI_DIV4", "RY_PI_DIV4", "RZ_PI_DIV4",
   "PHASE", "TWIRL", "CONTROLLED_NOT"}
TileGates == {"IDENTITY", "PAULI_X"}

\* a build that takes the desktop branches
is_cpython_desktop == TRUE

\* variant.is_cpython on the tile
is_cpython == FALSE

\* Comm.__init__: on CPython a thread for messageServiceRoutine is created
\* and started; on MicroPython none
Comm_init(cpython) ==
  IF cpython THEN << <<"messageServiceRoutine", "thread">> >> ELSE <<>>

\* the library has not been called
NoCall ==
  [call |-> "none", index |-> 0, gate |-> "none", args |-> <<0, 0>>,
   before |-> <<0, 0>>, error |-> "none"]

VARIABLES
  \* QuTile
  _type, _operator, _name, requestThreadRunning, serviceThreadRunning, outState,
  \* gate.cfg and the status LED
  gate_cfg, led,
  \* uart_in (upstream) and uart_out (downstream): every byte received so far,
  \* how many of them were read, and the bytes written
  uart_in_rx, uart_in_pos, uart_in_tx, uart_out_rx, uart_out_pos, uart_out_tx,
  \* the request loop: position, locals of requestInputState / waitForPattern /
  \* waitForBytes / updateStateRoutine, and the exception that ended it
  reqPc, timeLapse, timeEscape, bytesLapse, dataAvail, theta, phi, state, reqErr,
  \* the service loop: position, waitForBytes.timeLapse, the command read, the
  \* theta getQuantumState has read, and the exception that ended it
  svcPc, svcLapse, data, svcTheta, svcErr,
  \* the caller of stop(), and what the neighbours may still send
  stopPc, upBudget, downBudget,
  \* history: the outputs published as a unit, the pairs sent in state
  \* responses, how requestInputState came to its return value, consecutive
  \* failed exchanges, sync timeouts of the current call, where the published
  \* output came from, the last type change processed and the last type reply
  \* (opUsed: the operator the request loop applied last)
  published, served, inputSrc, misses, tries, opUsed, pubSrc, lastChange,
  lastTypeReply,
  \* the callbacks registered with Comm (setStateRequestCallback,
  \* setComponentTypeRequestCallback, setReplaceOperatorCallback)
  hooks,
  \* the execution contexts given a routine to run, in the order they were
  \* given it: <<routine, "thread">> for a thread created for it,
  \* <<routine, "call">> for a direct call that runs it in the caller
  contexts,
  \* qu_states.py: QuStates.states (the list the class body creates), the
  \* num_bits of the QuStates objects constructed so far, and the last call
  \* made on the library
  states, containers, last,
  \* the tile on the upstream side, when it is a tile: its outState, the
  \* position of its service loop in a state response and the theta its
  \* getQuantumState has read, and the outputs it published as a unit
  up_outState, up_svcPc, up_svcTheta, up_published,
  \* the state requests of this tile that reach the upstream tile, in the
  \* order sent: whether it is the one sent last, and whether it was answered
  up_requests

libVars == <<states, containers, last>>
peerVars == <<up_outState, up_svcPc, up_svcTheta, up_published, up_requests>>
\* what the two loops leave alone unless a command changes it
tileVars ==
  <<_type, _operator, _name, gate_cfg, hooks, contexts, libVars, peerVars>>
flagVars == <<requestThreadRunning, serviceThreadRunning>>
inVars == <<uart_in_rx, uart_in_pos, uart_in_tx>>
outVars == <<uart_out_rx, uart_out_pos, uart_out_tx>>
reqLocals == <<timeLapse, timeEscape, bytesLapse, dataAvail, theta, phi, state>>
reqVars == <<reqPc, reqLocals, reqErr>>
svcVars == <<svcPc, svcLapse, data, svcTheta, svcErr>>
envVars == <<stopPc, upBudget, downBudget>>
reqHist == <<inputSrc, misses, tries, opUsed>>
svcHist == <<served, lastChange, lastTypeReply>>
pubHist == <<published, pubSrc>>
vars ==
  <<tileVars, flagVars, outState, led, inVars, outVars, reqVars, svcVars,
    envVars, reqHist, svcHist, pubHist>>

(***************************************************************************)
(* main.py: the tile is constructed from the text of gate.cfg.             *)
(***************************************************************************)
\* gate.upper(), for the contents gate.cfg is given here
UpperCase == [hadamard |-> "HADAMARD", pauli_z |-> "PAULI_Z"]
upper(text) == IF text \in DOMAIN UpperCase THEN UpperCase[text] ELSE text

\* a startup that ignores the file
main_default(text) == "IDENTITY"

\* the gate of the tile main.py constructs: eval('GateTypes.' + gate) and,
\* in QuTile.__init__, eval('GateOperators.' + name); any exception leads to
\* QuTile(gate_type=GateTypes.IDENTITY)
main(text) ==
  IF HasType(upper(text)) /\ HasOperator(upper(text))
    THEN upper(text)
    ELSE "IDENTITY"

(***************************************************************************)
(* The state after main.py has constructed the tile from gate.cfg and      *)
(* before start().                                                         *)
(***************************************************************************)
InitOn(cpython, gates, up, down, registered) ==
  /\ \E g \in gates :
       /\ gate_cfg = g
       /\ _type = main(g)
       /\ _name = main(g)
       /\ _operator = main(g)
  /\ hooks \in registered
  /\ contexts = Comm_init(cpython)
  /\ states = <<>> /\ containers = <<>> /\ last = NoCall
  /\ up_outState = QuantumBitState(0, 0) /\ up_svcPc = "sync"
  /\ up_svcTheta = 0 /\ up_published = {QuantumBitState(0, 0)}
  /\ up_requests = <<>>
  /\ requestThreadRunning = FALSE
  /\ serviceThreadRunning = FALSE
  /\ outState = QuantumBitState(0, 0)
  /\ led = "DIM_YELLOW"
  /\ uart_in_rx = <<>> /\ uart_in_pos = 0 /\ uart_in_tx = <<>>
  /\ uart_out_rx = <<>> /\ uart_out_pos = 0 /\ uart_out_tx = <<>>
  /\ reqPc = "idle" /\ timeLapse = 0 /\ timeEscape = 0 /\ bytesLapse = 0
  /\ dataAvail = 0 /\ theta = 0 /\ phi = 0 /\ state = <<0, 0>>
  /\ reqErr = "none"
  /\ svcPc = "idle" /\ svcLapse = 0 /\ data = <<>> /\ svcTheta = 0
  /\ svcErr = "none"
  /\ stopPc = "idle" /\ upBudget = up /\ downBudget = down
  /\ published = {QuantumBitState(0, 0)} /\ served = {}
  /\ inputSrc = "none" /\ misses = 0 /\ tries = 0 /\ opUsed = "none"
  /\ pubSrc = <<"init", "none">>
  /\ lastChange = -1 /\ lastTypeReply = <<-1, -1>>

\* the tile build
InitOf(gates, up, down, registered) ==
  InitOn(is_cpython, gates, up, down, registered)

\* QuTile.__init__ registers the three callbacks
InitWith(gates, up, down) == InitOf(gates, up, down, {Hooks})

(***************************************************************************)
(* Comm.waitForPattern: one pass of its for loop over the pattern, from    *)
(* position i.  A byte is read while one is available; the pass ends with  *)
(* a mismatch (the byte is consumed), with no byte available, or matched.  *)
(***************************************************************************)
\* a pass that looks at the pattern's last byte only
waitForPatternPass_lastByteOnly(rx, pos, pattern, i) ==
  IF pos >= Len(rx) THEN [matched |-> FALSE, pos |-> pos]
  ELSE [matched |-> rx[pos + 1] = pattern[Len(pattern)], pos |-> pos + 1]

\* a pass that leaves a mismatching byte on the link
RECURSIVE waitForPatternPass_keepsMismatch(_, _, _, _)
waitForPatternPass_keepsMismatch(rx, pos, pattern, i) ==
  IF pos >= Len(rx) THEN [matched |-> FALSE, pos |-> pos]
  ELSE IF rx[pos + 1] # pattern[i] THEN [matched |-> FALSE, pos |-> pos]
  ELSE IF i = Len(pattern) THEN [matched |-> TRUE, pos |-> pos + 1]
  ELSE waitForPatternPass_keepsMismatch(rx, pos + 1, pattern, i + 1)

RECURSIVE waitForPatternPass(_, _, _, _)
waitForPatternPass(rx, pos, pattern, i) ==
  IF pos >= Len(rx) THEN [matched |-> FALSE, pos |-> pos]
  ELSE IF rx[pos + 1] # pattern[i] THEN [matched |-> FALSE, pos |-> pos + 1]
  ELSE IF i = Len(pattern) THEN [matched |-> TRUE, pos |-> pos + 1]
  ELSE waitForPatternPass(rx, pos + 1, pattern, i + 1)

\* a timeout test that gives up after the first pass
PatternTimedOut_atOnce(escape, timeout) == TRUE

\* a timeout test that takes timeout 0 for a timeout like any other
PatternTimedOut_zeroIsTimeout(escape, timeout) == escape + waitTime >= timeout

\* after the pass: time.sleep(waitTime), then the timeout test
PatternTimedOut(escape, timeout) ==
  timeout > 0 /\ escape + waitTime >= timeout

\* a byte wait that never gives up
BytesTimedOut_never(lapse, timeout) == FALSE

\* waitForBytes: the availability test, and the timeout test after the sleep
BytesAvailable(rx, pos, numBytes) == Len(rx) - pos >= numBytes
BytesTimedOut(lapse, timeout) == lapse + bytesWaitStep >= timeout

(***************************************************************************)
(* Comm.requestInputState and QuTile.updateStateRoutine (the request loop).*)
(***************************************************************************)
\* a retry rule that allows one request more
RetryRequest_inclusive(lapse) == lapse <= connectionTimeout

\* elif timeLapse < connectionTimeout: another request is sent
RetryRequest(lapse) == lapse < connectionTimeout
\* if dataAvail >= 12
ResponseComplete(avail) == avail >= ResponseLength
\* a test that accepts any 12 bytes
IsStateResponse_anyOpcode(d) == Len(d) = ResponseLength
\* if len(data) == 12 and data[0] == OpCode.QuantumStateResponse
IsStateResponse(d) == Len(d) = ResponseLength /\ d[1] = QuantumStateResponse
DecodeTheta(d) == unpack(SubSeq(d, 5, 8))
DecodePhi(d) == unpack(SubSeq(d, 9, 12))
\* the state requestInputState returns when no response was decoded
OpenInputState == <<0, 0>>
Bump(n) == IF n < MaxMisses THEN n + 1 ELSE n

\* self.requestThreadRunning = True
updateStateRoutine_begin ==
  /\ reqPc = "begin"
  /\ requestThreadRunning' = TRUE
  /\ reqPc' = "test"
  /\ UNCHANGED <<tileVars, serviceThreadRunning, outState, led, inVars, outVars,
                 reqLocals, reqErr, svcVars, envVars, reqHist, svcHist, pubHist>>

\* a loop test that ignores the flag
RequestLoopCondition_always == TRUE

\* while self.requestThreadRunning
RequestLoopCondition == requestThreadRunning

\* while self.requestThreadRunning: ... requestInputState() is entered
updateStateRoutine_test ==
  /\ reqPc = "test"
  /\ IF RequestLoopCondition
       THEN /\ reqPc' = "send"
            /\ timeLapse' = 0
            /\ tries' = 0
       ELSE /\ reqPc' = "done"
            /\ UNCHANGED <<timeLapse, tries>>
  /\ UNCHANGED <<tileVars, flagVars, outState, led, inVars, outVars, timeEscape,
                 bytesLapse, dataAvail, theta, phi, state, reqErr, svcVars,
                 envVars, inputSrc, misses, opUsed, svcHist, pubHist>>

\* self.sendStateRequest(self.uart_in); waitForPattern starts
requestInputState_send ==
  /\ reqPc = "send"
  /\ uart_in_tx' = StateRequestFrame
  /\ up_requests' =
       LET earlier == [k \in DOMAIN up_requests |->
                         [up_requests[k] EXCEPT !.latest = FALSE]] IN
       IF Len(up_requests) < MaxUpFrames
         THEN Append(earlier, [latest |-> TRUE, answered |-> FALSE])
         ELSE earlier
  /\ timeEscape' = 0
  /\ reqPc' = "sync"
  /\ UNCHANGED <<_type, _operator, _name, gate_cfg, hooks, contexts, libVars,
                 up_outState, up_svcPc, up_svcTheta, up_published,
                 flagVars, outState, led, uart_in_rx, uart_in_pos,
                 outVars, timeLapse, bytesLapse, dataAvail, theta, phi, state,
                 reqErr, svcVars, envVars, reqHist, svcHist, pubHist>>

\* waitForPattern(self.uart_in, self._MsgHeader, timeout=waitStep): one pass,
\* and what requestInputState does with a timeout
requestInputState_waitForPattern ==
  /\ reqPc = "sync"
  /\ LET r == waitForPatternPass(uart_in_rx, uart_in_pos, _MsgHeader, 1) IN
       /\ uart_in_pos' = r.pos
       /\ IF r.matched
            THEN /\ reqPc' = "bytes"
                 /\ bytesLapse' = 0
                 /\ UNCHANGED <<timeLapse, timeEscape, theta, phi, led,
                                inputSrc, misses, tries>>
            ELSE IF ~PatternTimedOut(timeEscape, waitStep)
            THEN /\ timeEscape' = timeEscape + waitTime
                 /\ UNCHANGED <<reqPc, bytesLapse, timeLapse, theta, phi, led,
                                inputSrc, misses, tries>>
            ELSE IF RetryRequest(timeLapse)
            THEN /\ timeLapse' = timeLapse + waitStep
                 /\ reqPc' = "send"
                 /\ misses' = Bump(misses)
                 /\ tries' = tries + 1
                 /\ UNCHANGED <<timeEscape, bytesLapse, theta, phi, led, inputSrc>>
            ELSE /\ led' = "BLUE"
                 /\ theta' = OpenInputState[1]
                 /\ phi' = OpenInputState[2]
                 /\ reqPc' = "operate"
                 /\ inputSrc' = "open_sync"
                 /\ misses' = Bump(misses)
                 /\ tries' = tries + 1
                 /\ UNCHANGED <<timeLapse, timeEscape, bytesLapse>>
  /\ UNCHANGED <<tileVars, flagVars, outState, uart_in_rx, uart_in_tx, outVars,
                 dataAvail, state, reqErr, svcVars, envVars, opUsed, svcHist,
                 pubHist>>

\* self.waitForBytes(self.uart_in, 12, timeout=0.01): one poll
requestInputState_waitForBytes ==
  /\ reqPc = "bytes"
  /\ IF BytesAvailable(uart_in_rx, uart_in_pos, ResponseLength)
          \/ BytesTimedOut(bytesLapse, bytesTimeout)
       THEN reqPc' = "read" /\ UNCHANGED bytesLapse
       ELSE bytesLapse' = bytesLapse + bytesWaitStep /\ UNCHANGED reqPc
  /\ UNCHANGED <<tileVars, flagVars, outState, led, inVars, outVars, timeLapse,
                 timeEscape, dataAvail, theta, phi, state, reqErr, svcVars,
                 envVars, reqHist, svcHist, pubHist>>

\* dataAvail = self.uart_in.any() and the read and decoding that follow.
\* showInvalidInput on this build names the unbound global "led".
requestInputState_read ==
  /\ reqPc = "read"
  /\ dataAvail' = Len(uart_in_rx) - uart_in_pos
  /\ IF ResponseComplete(dataAvail')
       THEN LET d == SubSeq(uart_in_rx, uart_in_pos + 1,
                            uart_in_pos + ResponseLength) IN
            /\ uart_in_pos' = uart_in_pos + ResponseLength
            /\ IF IsStateResponse(d)
                 THEN /\ theta' = DecodeTheta(d)
                      /\ phi' = DecodePhi(d)
                      /\ led' = "GREEN"
                      /\ reqPc' = "operate"
                      /\ inputSrc' = "decoded"
                      /\ misses' = 0
                      /\ UNCHANGED reqErr
                 ELSE /\ theta' = OpenInputState[1]
                      /\ phi' = OpenInputState[2]
                      /\ reqPc' = "crashed"
                      /\ reqErr' = "NameError"
                      /\ inputSrc' = "invalid"
                      /\ UNCHANGED <<led, misses>>
       ELSE /\ theta' = OpenInputState[1]
            /\ phi' = OpenInputState[2]
            /\ led' = "BLUE"
            /\ reqPc' = "operate"
            /\ inputSrc' = "open_short"
            /\ misses' = Bump(misses)
            /\ UNCHANGED <<uart_in_pos, reqErr>>
  /\ UNCHANGED <<tileVars, flagVars, outState, uart_in_rx, uart_in_tx, outVars,
                 timeLapse, timeEscape, bytesLapse, state, svcVars, envVars,
                 tries, opUsed, svcHist, pubHist>>

\* state = QuantumBitState(theta, phi); state.operate(self._operator, update=True)
updateStateRoutine_operate ==
  /\ reqPc = "operate"
  /\ opUsed' = _operator
  /\ IF OperatorIs2x2(GateOperators[_operator])
       THEN /\ state' = operate(QuantumBitState(theta, phi),
                                GateOperators[_operator])
            /\ reqPc' = "publish"
            /\ UNCHANGED reqErr
       ELSE /\ state' = QuantumBitState(theta, phi)
            /\ reqPc' = "crashed"
            /\ reqErr' = "ValueError"
  /\ UNCHANGED <<tileVars, flagVars, outState, led, inVars, outVars, timeLapse,
                 timeEscape, bytesLapse, dataAvail, theta, phi, svcVars, envVars,
                 inputSrc, misses, tries, svcHist, pubHist>>

\* self.outState = state; time.sleep(0.01)
updateStateRoutine_publish ==
  /\ reqPc = "publish"
  /\ outState' = state
  /\ published' = published \cup {state}
  /\ pubSrc' = <<inputSrc, opUsed>>
  /\ reqPc' = "test"
  /\ UNCHANGED <<tileVars, flagVars, led, inVars, outVars, reqLocals, reqErr,
                 svcVars, envVars, reqHist, svcHist>>

RequestLoop ==
  \/ updateStateRoutine_begin
  \/ updateStateRoutine_test
  \/ requestInputState_send
  \/ requestInputState_waitForPattern
  \/ requestInputState_waitForBytes
  \/ requestInputState_read
  \/ updateStateRoutine_operate
  \/ updateStateRoutine_publish

(***************************************************************************)
(* Comm.serviceRequest and QuTile.serviceThread (the service loop).        *)
(***************************************************************************)
\* the name serviceRequest finds for a type id: the member of GateTypes with
\* that value, "UNDEFINED" when there is none
componentTypeName(componentTypeId) ==
  IF \E name \in DOMAIN GateTypes : GateTypes[name] = componentTypeId
    THEN CHOOSE name \in DOMAIN GateTypes : GateTypes[name] = componentTypeId
    ELSE "UNDEFINED"

\* a replacement that leaves the type as it was
replaceOperator_keepType(name) ==
  [_operator |-> name, _type |-> _type, _name |-> name]

\* QuTile.__init__.replaceOperator(name), when both eval calls succeed
replaceOperator(name) ==
  [_operator |-> name, _type |-> name, _name |-> name]

\* QuTile.__init__.getComponentType() and int(componentType.value)
getComponentType == GateTypes[_type]

\* a test that takes every callback for registered
HookIsSet_always(hook) == TRUE

\* if self.getQuantumState: / if self.getComponentType: / if self.replaceOperator:
HookIsSet(hook) == hook \in hooks

\* while self.serviceThreadRunning
ServiceLoopCondition == serviceThreadRunning

\* self.serviceThreadRunning = True
serviceThread_begin ==
  /\ svcPc = "begin"
  /\ serviceThreadRunning' = TRUE
  /\ svcPc' = "test"
  /\ UNCHANGED <<tileVars, requestThreadRunning, outState, led, inVars, outVars,
                 reqVars, svcLapse, data, svcTheta, svcErr, envVars, reqHist,
                 svcHist, pubHist>>

\* while self.serviceThreadRunning: self.comm.serviceRequest()
serviceThread_test ==
  /\ svcPc = "test"
  /\ svcPc' = IF ServiceLoopCondition THEN "sync" ELSE "done"
  /\ UNCHANGED <<tileVars, flagVars, outState, led, inVars, outVars, reqVars,
                 svcLapse, data, svcTheta, svcErr, envVars, reqHist, svcHist,
                 pubHist>>

\* self.waitForPattern(self.uart_out, self._MsgHeader): one pass; with
\* timeout 0.0 the wait never gives up
serviceRequest_waitForPattern ==
  /\ svcPc = "sync"
  /\ LET r == waitForPatternPass(uart_out_rx, uart_out_pos, _MsgHeader, 1) IN
       /\ uart_out_pos' = r.pos
       /\ IF r.matched \/ PatternTimedOut(0, serviceSyncTimeout)
            THEN svcPc' = "bytes" /\ svcLapse' = 0
            ELSE UNCHANGED <<svcPc, svcLapse>>
  /\ UNCHANGED <<tileVars, flagVars, outState, led, inVars, uart_out_rx,
                 uart_out_tx, reqVars, data, svcTheta, svcErr, envVars, reqHist,
                 svcHist, pubHist>>

\* self.waitForBytes(self.uart_out, 4, timeout=0.01): one poll
serviceRequest_waitForBytes ==
  /\ svcPc = "bytes"
  /\ IF BytesAvailable(uart_out_rx, uart_out_pos, CommandLength)
          \/ BytesTimedOut(svcLapse, bytesTimeout)
       THEN svcPc' = "cmd" /\ UNCHANGED svcLapse
       ELSE svcLapse' = svcLapse + bytesWaitStep /\ UNCHANGED svcPc
  /\ UNCHANGED <<tileVars, flagVars, outState, led, inVars, outVars, reqVars,
                 data, svcTheta, svcErr, envVars, reqHist, svcHist, pubHist>>

\* dataAvail = self.uart_out.any(); data = self.uart_out.read(4); the
\* dispatch on data[0]
serviceRequest_dispatch ==
  /\ svcPc = "cmd"
  /\ IF Len(uart_out_rx) - uart_out_pos >= CommandLength
       THEN LET d == SubSeq(uart_out_rx, uart_out_pos + 1,
                            uart_out_pos + CommandLength) IN
         /\ data' = d
         /\ uart_out_pos' = uart_out_pos + CommandLength
         /\ IF d[1] = QuantumStateRequest
              THEN /\ uart_out_tx' = uart_out_tx \o _MsgHeader \o StateResponseHeader
                   /\ IF HookIsSet("getQuantumState")
                        THEN svcPc' = "theta" /\ UNCHANGED svcErr
                        ELSE svcPc' = "crashed" /\ svcErr' = "ValueError"
                   /\ UNCHANGED <<tileVars, lastChange, lastTypeReply>>
            ELSE IF d[1] = ComponentTypeRequest
              THEN /\ IF HookIsSet("getComponentType")
                        THEN /\ uart_out_tx' = uart_out_tx \o _MsgHeader
                                     \o TypeResponseHeader(getComponentType)
                             /\ lastTypeReply' = <<getComponentType, lastChange>>
                             /\ svcPc' = "test"
                             /\ UNCHANGED svcErr
                        ELSE /\ uart_out_tx' = uart_out_tx \o _MsgHeader
                             /\ svcPc' = "crashed"
                             /\ svcErr' = "ValueError"
                             /\ UNCHANGED lastTypeReply
                   /\ UNCHANGED <<tileVars, lastChange>>
            ELSE IF d[1] = ComponentTypeChangeRequest
              THEN LET name == componentTypeName(d[2]) IN
                   /\ gate_cfg' = name
                   /\ lastChange' = d[2]
                   /\ IF ~HookIsSet("replaceOperator")
                        THEN /\ svcPc' = "test"
                             /\ UNCHANGED <<_operator, _type, _name, svcErr>>
                        ELSE IF HasOperator(name) /\ HasType(name)
                        THEN /\ _operator' = replaceOperator(name)._operator
                             /\ _type' = replaceOperator(name)._type
                             /\ _name' = replaceOperator(name)._name
                             /\ svcPc' = "test"
                             /\ UNCHANGED svcErr
                        ELSE /\ svcPc' = "crashed"
                             /\ svcErr' = "AttributeError"
                             /\ UNCHANGED <<_operator, _type, _name>>
                   /\ UNCHANGED <<uart_out_tx, lastTypeReply, hooks, contexts,
                                  libVars, peerVars>>
            ELSE /\ svcPc' = "test"
                 /\ UNCHANGED <<tileVars, uart_out_tx, svcErr, lastChange,
                                lastTypeReply>>
       ELSE /\ svcPc' = "test"
            /\ UNCHANGED <<tileVars, data, uart_out_pos, uart_out_tx, svcErr,
                           lastChange, lastTypeReply>>
  /\ UNCHANGED <<flagVars, outState, led, inVars, uart_out_rx, reqVars,
                 svcLapse, svcTheta, envVars, reqHist, served, pubHist>>

\* getQuantumState: return self.outState.theta, self.outState.phi -- the
\* first attribute load
getQuantumState_theta ==
  /\ svcPc = "theta"
  /\ svcTheta' = outState[1]
  /\ svcPc' = "phi"
  /\ UNCHANGED <<tileVars, flagVars, outState, led, inVars, outVars, reqVars,
                 svcLapse, data, svcErr, envVars, reqHist, svcHist, pubHist>>

\* the second attribute load, then self.sendFloat(theta), self.sendFloat(phi)
getQuantumState_phi ==
  /\ svcPc = "phi"
  /\ uart_out_tx' = uart_out_tx \o pack(svcTheta) \o pack(outState[2])
  /\ served' = served \cup {<<svcTheta, outState[2]>>}
  /\ svcPc' = "test"
  /\ UNCHANGED <<tileVars, flagVars, outState, led, inVars, uart_out_rx,
                 uart_out_pos, reqVars, svcLapse, data, svcTheta, svcErr,
                 envVars, reqHist, lastChange, lastTypeReply, pubHist>>

ServiceLoop ==
  \/ serviceThread_begin
  \/ serviceThread_test
  \/ serviceRequest_waitForPattern
  \/ serviceRequest_waitForBytes
  \/ serviceRequest_dispatch
  \/ getQuantumState_theta
  \/ getQuantumState_phi

(***************************************************************************)
(* QuTile.start (MicroPython branch), QuTile.stop, and the neighbours.     *)
(***************************************************************************)
\* start(): on CPython a Thread for each routine; on MicroPython
\* _thread.start_new_thread(self.updateStateRoutine, ()) and then the direct
\* call self.serviceThread()
startOn(cpython) ==
  /\ reqPc = "idle" /\ svcPc = "idle"
  /\ reqPc' = "begin"
  /\ svcPc' = "begin"
  /\ contexts' = contexts \o
       (IF cpython
          THEN << <<"updateStateRoutine", "thread">>, <<"serviceThread", "thread">> >>
          ELSE << <<"updateStateRoutine", "thread">>, <<"serviceThread", "call">> >>)
  /\ UNCHANGED <<_type, _operator, _name, gate_cfg, hooks, libVars, peerVars,
                 flagVars,
                 outState, led, inVars, outVars, reqLocals, reqErr, svcLapse,
                 data, svcTheta, svcErr, envVars, reqHist, svcHist, pubHist>>

start == startOn(is_cpython)

\* the contexts running a routine
Running(routine) ==
  Cardinality({k \in DOMAIN contexts : contexts[k][1] = routine})

\* start() on CPython, called on a tile that was started before: each flag
\* is tested, RuntimeError when it is set, a Thread for the routine when not
start_again ==
  /\ reqPc # "idle"
  /\ Running("updateStateRoutine") < MaxStarts
  /\ contexts' =
       IF requestThreadRunning THEN contexts
       ELSE IF serviceThreadRunning
         THEN contexts \o << <<"updateStateRoutine", "thread">> >>
         ELSE contexts \o << <<"updateStateRoutine", "thread">>,
                              <<"serviceThread", "thread">> >>
  /\ UNCHANGED <<_type, _operator, _name, gate_cfg, hooks, libVars, peerVars,
                 flagVars, outState, led, inVars, outVars, reqVars, svcVars,
                 envVars, reqHist, svcHist, pubHist>>

\* stop(): self.requestThreadRunning = False
stop_request ==
  /\ stopPc = "idle"
  /\ reqPc # "idle"
  /\ requestThreadRunning' = FALSE
  /\ stopPc' = "half"
  /\ UNCHANGED <<tileVars, serviceThreadRunning, outState, led, inVars, outVars,
                 reqVars, svcVars, upBudget, downBudget, reqHist, svcHist,
                 pubHist>>

\* stop(): self.serviceThreadRunning = False
stop_service ==
  /\ stopPc = "half"
  /\ serviceThreadRunning' = FALSE
  /\ stopPc' = "returned"
  /\ UNCHANGED <<tileVars, requestThreadRunning, outState, led, inVars, outVars,
                 reqVars, svcVars, upBudget, downBudget, reqHist, svcHist,
                 pubHist>>

\* the upstream neighbour puts a chunk on the tile's uart_in
Upstream(chunks) ==
  /\ upBudget > 0
  /\ \E chunk \in chunks : uart_in_rx' = uart_in_rx \o chunk
  /\ upBudget' = upBudget - 1
  /\ UNCHANGED <<tileVars, flagVars, outState, led, uart_in_pos, uart_in_tx,
                 outVars, reqVars, svcVars, stopPc, downBudget, reqHist, svcHist,
                 pubHist>>

\* the downstream neighbour puts a request on the tile's uart_out
Downstream(chunks) ==
  /\ downBudget > 0
  /\ \E chunk \in chunks : uart_out_rx' = uart_out_rx \o chunk
  /\ downBudget' = downBudget - 1
  /\ UNCHANGED <<tileVars, flagVars, outState, led, inVars, uart_out_pos,
                 uart_out_tx, reqVars, svcVars, stopPc, upBudget, reqHist,
                 svcHist, pubHist>>

\* the tile is reset or power-cycled and main.py runs again: a new QuTile is
\* constructed from gate.cfg; the links start empty
restart ==
  /\ svcPc # "idle"
  /\ _type' = main(gate_cfg)
  /\ _name' = main(gate_cfg)
  /\ _operator' = main(gate_cfg)
  /\ hooks' = Hooks
  /\ contexts' = Comm_init(is_cpython)
  /\ states' = <<>> /\ containers' = <<>> /\ last' = NoCall
  /\ requestThreadRunning' = FALSE
  /\ serviceThreadRunning' = FALSE
  /\ outState' = QuantumBitState(0, 0)
  /\ led' = "DIM_YELLOW"
  /\ uart_in_rx' = <<>> /\ uart_in_pos' = 0 /\ uart_in_tx' = <<>>
  /\ uart_out_rx' = <<>> /\ uart_out_pos' = 0 /\ uart_out_tx' = <<>>
  /\ reqPc' = "idle" /\ timeLapse' = 0 /\ timeEscape' = 0 /\ bytesLapse' = 0
  /\ dataAvail' = 0 /\ theta' = 0 /\ phi' = 0 /\ state' = <<0, 0>>
  /\ reqErr' = "none"
  /\ svcPc' = "idle" /\ svcLapse' = 0 /\ data' = <<>> /\ svcTheta' = 0
  /\ svcErr' = "none"
  /\ stopPc' = "idle"
  /\ pubSrc' = <<"init", "none">>
  /\ UNCHANGED <<gate_cfg, upBudget, downBudget, published, reqHist, svcHist,
                 peerVars>>

(***************************************************************************)
(* qu_states.py used as a library, the way its unitTest does: QuStates     *)
(* objects are constructed and the qubits in QuStates.states are operated. *)
(***************************************************************************)
\* everything but the library
tileState ==
  <<_type, _operator, _name, gate_cfg, hooks, contexts, peerVars, flagVars,
    outState, led,
    inVars, outVars, reqVars, svcVars, envVars, reqHist, svcHist, pubHist>>

\* the num_bits and the (theta, phi) given to QuStates(num_bits=, theta=, phi=)
NumBitsArgs == {0, 1, 2}
\* multiples of pi/2 from -3 pi/2 to 4 pi
QubitAngles == {-12, -8, -4, 0, 4, 8, 12, 16, 20, 24, 32}
CircuitAngles == {<<0, 0>>, <<8, 0>>}
\* the operators given to operate: the gates that turn the sphere by
\* multiples of pi/2, and the ones made for more than one qubit
QubitGates ==
  {"IDENTITY", "PAULI_X", "PAULI_Y", "PAULI_Z", "HADAMARD", "RX_PI_DIV2",
   "RY_PI_DIV2", "RZ_PI_DIV2", "PHASE", "CONTROLLED_NOT", "SWAP", "TOFFOLI"}
CircuitGates == {"HADAMARD", "CONTROLLED_NOT"}

\* QuStates.getNumBits() of the container constructed c-th: len(self.states),
\* where self.states is the list of the class (no instance assigns its own)
getNumBits(c) == Len(states)

\* QuStates(num_bits=num_bits, theta=theta, phi=phi)
QuStates_init(angles) ==
  /\ \E num_bits \in NumBitsArgs, a \in angles :
       IF num_bits <= 0
         THEN /\ last' = [NoCall EXCEPT !.call = "QuStates", !.args = a,
                                        !.error = "ValueError"]
              /\ UNCHANGED <<states, containers>>
         ELSE /\ states' = states \o [k \in 1..num_bits |->
                                        QuantumBitState(a[1], a[2])]
              /\ containers' = Append(containers, num_bits)
              /\ last' = [NoCall EXCEPT !.call = "QuStates", !.args = a,
                                        !.index = Len(containers) + 1]
  /\ UNCHANGED tileState

\* circuit = QuStates(...), once
unitTest_circuit ==
  /\ containers = <<>>
  /\ QuStates_init(QubitAngles \X QubitAngles)

\* one more QuStates object
QuStates_another ==
  /\ Len(containers) < MaxContainers
  /\ QuStates_init(CircuitAngles)

\* circuit.states[i].operate(GateOperators.<gate>)
QuantumBitState_operate(gates) ==
  /\ \E i \in 1..Len(states), gate \in gates :
       /\ last' = [NoCall EXCEPT !.call = "operate", !.index = i, !.gate = gate,
                                 !.before = states[i],
                                 !.error = IF OperatorIs2x2(GateOperators[gate])
                                             THEN "none" ELSE "ValueError"]
       /\ states' = IF OperatorIs2x2(GateOperators[gate])
                      THEN [states EXCEPT ![i] = operate(@, GateOperators[gate])]
                      ELSE states
  /\ UNCHANGED <<containers, tileState>>

\* q = circuit.states[i]; q.setStandardBasisState(*q.getStandardBasisState())
QuantumBitState_roundTrip ==
  /\ \E i \in 1..Len(states) :
       LET basis == getStandardBasisState(states[i]) IN
       /\ last' = [NoCall EXCEPT !.call = "setStandardBasisState", !.index = i,
                                 !.before = states[i]]
       /\ states' = [states EXCEPT
                       ![i] = setStandardBasisState(0, basis[1], basis[2])]
  /\ UNCHANGED <<containers, tileState>>

(***************************************************************************)
(* A tile as the upstream neighbour: its request loop publishes outputs,   *)
(* its service loop answers the state request this tile has sent.          *)
(***************************************************************************)
\* the outputs the upstream tile computes
UpOutputs == {<<4, 0>>, <<8, 4>>}

\* the upstream tile's updateStateRoutine: self.outState = state
Upstream_publish ==
  /\ \E st \in UpOutputs \ up_published :
       /\ up_outState' = st
       /\ up_published' = up_published \cup {st}
  /\ UNCHANGED <<_type, _operator, _name, gate_cfg, hooks, contexts, libVars,
                 up_svcPc, up_svcTheta, up_requests, flagVars, outState, led,
                 inVars, outVars,
                 reqVars, svcVars, envVars, reqHist, svcHist, pubHist>>

\* the upstream tile's serviceRequest has read this tile's state request and
\* written sync and header; getQuantumState loads self.outState.theta
Upstream_theta ==
  /\ upBudget > 0
  /\ up_svcPc = "sync"
  /\ reqPc = "sync" /\ Len(uart_in_rx) = uart_in_pos
  /\ up_svcTheta' = up_outState[1]
  /\ up_svcPc' = "phi"
  /\ uart_in_rx' = uart_in_rx \o _MsgHeader \o StateResponseHeader
  /\ UNCHANGED <<_type, _operator, _name, gate_cfg, hooks, contexts, libVars,
                 up_outState, up_published, up_requests, flagVars, outState, led,
                 uart_in_pos,
                 uart_in_tx, outVars, reqVars, svcVars, envVars, reqHist,
                 svcHist, pubHist>>

\* getQuantumState loads self.outState.phi; sendFloat(theta), sendFloat(phi)
Upstream_phi ==
  /\ up_svcPc = "phi"
  /\ uart_in_rx' = uart_in_rx \o pack(up_svcTheta) \o pack(up_outState[2])
  /\ up_svcPc' = "sync"
  /\ upBudget' = upBudget - 1
  /\ UNCHANGED <<_type, _operator, _name, gate_cfg, hooks, contexts, libVars,
                 up_outState, up_svcTheta, up_published, up_requests, flagVars,
                 outState, led,
                 uart_in_pos, uart_in_tx, outVars, reqVars, svcVars, stopPc,
                 downBudget, reqHist, svcHist, pubHist>>

\* the upstream tile's serviceRequest answers the oldest state request it
\* has not answered yet, whenever it gets to it: sync, header, theta and phi
Upstream_reply ==
  /\ upBudget > 0
  /\ \E k \in DOMAIN up_requests :
       /\ ~up_requests[k].answered
       /\ \A j \in 1..(k - 1) : up_requests[j].answered
       /\ up_requests' = [up_requests EXCEPT ![k].answered = TRUE]
  /\ \E st \in Inputs : uart_in_rx' = uart_in_rx \o StateResponseFrame(st)
  /\ upBudget' = upBudget - 1
  /\ UNCHANGED <<_type, _operator, _name, gate_cfg, hooks, contexts, libVars,
                 up_outState, up_svcPc, up_svcTheta, up_published, flagVars,
                 outState, led, uart_in_pos, uart_in_tx, outVars, reqVars,
                 svcVars, stopPc, downBudget, reqHist, svcHist, pubHist>>

UpstreamSend == Upstream(UpstreamChunks)

StrayUpstreamSend == Upstream(StrayUpstreamChunks)

StrayDownstreamSend == Downstream(StrayDownstreamChunks)

DownstreamSend == Downstream(DownstreamChunks)

TileDownstreamSend == Downstream(TileDownstreamChunks)

CommDownstreamSend == Downstream(CommDownstreamChunks)

(***************************************************************************)
(* Specifications.  Spec is the tile with both loops and both neighbours.  *)
(* ClientSpec is the tile whose downstream neighbour is silent and whose   *)
(* service loop therefore only waits: the request loop, the upstream       *)
(* neighbour and stop().  ServerSpec is the tile seen from downstream: the *)
(* service loop, the downstream neighbour and stop().  The Fair variants   *)
(* add that a running loop keeps being scheduled.                          *)
(***************************************************************************)
Init == InitWith(TileGates, TileUpFrames, TileDownFrames)

Next ==
  \/ start
  \/ RequestLoop
  \/ ServiceLoop
  \/ UpstreamSend
  \/ TileDownstreamSend

Spec == Init /\ [][Next]_vars

ClientInit == InitWith(StartGates, MaxUpFrames, 0)

ClientNext ==
  \/ start
  \/ RequestLoop
  \/ stop_request
  \/ stop_service
  \/ UpstreamSend

ClientSpec == ClientInit /\ [][ClientNext]_vars

ClientFairInit == InitWith(TileGates, TileUpFrames, 0)

ClientFair == ClientFairInit /\ [][ClientNext]_vars /\ WF_vars(RequestLoop)

ServerInit == InitWith(TileGates, 0, MaxDownFrames)

ServerNext ==
  \/ start
  \/ ServiceLoop
  \/ stop_request
  \/ stop_service
  \/ DownstreamSend

ServerSpec == ServerInit /\ [][ServerNext]_vars

ServerFair == ServerInit /\ [][ServerNext]_vars /\ WF_vars(ServiceLoop)

\* a Comm whose owner registered any of the callbacks, serving its
\* downstream link
CommInit == InitOf(TileGates, 0, MaxDownFrames, SUBSET Hooks)

CommNext ==
  \/ start
  \/ ServiceLoop
  \/ CommDownstreamSend

CommSpec == CommInit /\ [][CommNext]_vars

\* the tile on noisy links, the noise on one link at a time
StrayInit ==
  \/ InitWith({"IDENTITY"}, MaxStrayChunks, 0)
  \/ InitWith({"IDENTITY"}, 0, MaxStrayChunks)

StrayNext ==
  \/ start
  \/ RequestLoop
  \/ ServiceLoop
  \/ StrayUpstreamSend
  \/ StrayDownstreamSend

StraySpec == StrayInit /\ [][StrayNext]_vars

\* the service loop on a noisy downstream link, scheduled again and again
StrayServerInit == InitWith({"IDENTITY"}, 0, MaxStrayServerChunks)

StrayServerNext ==
  \/ start
  \/ ServiceLoop
  \/ StrayDownstreamSend

StrayServerFair ==
  StrayServerInit /\ [][StrayServerNext]_vars /\ WF_vars(ServiceLoop)

\* the tile seen from downstream across restarts; gate.cfg holds at first
\* a name in upper case, a name in lower case, or a name without operator
StartFiles == {"PAULI_X", "hadamard", "UNDEFINED"}

RestartInit == InitWith(StartFiles, 0, MaxDownFrames)

RestartNext ==
  \/ start
  \/ ServiceLoop
  \/ DownstreamSend
  \/ restart

RestartSpec == RestartInit /\ [][RestartNext]_vars

\* the library: several QuStates objects, and one object whose qubits are
\* constructed from a grid of angles and operated
LibInit == InitWith({"IDENTITY"}, 0, 0)

QuStatesNext ==
  \/ QuStates_another
  \/ QuantumBitState_operate(CircuitGates)

QuStatesSpec == LibInit /\ [][QuStatesNext]_vars

QubitNext ==
  \/ unitTest_circuit
  \/ QuantumBitState_operate(QubitGates)
  \/ QuantumBitState_roundTrip

QubitSpec == LibInit /\ [][QubitNext]_vars

\* two tiles in a chain, seen from the downstream one
ChainInit == InitWith(TileGates, MaxUpFrames, 0)

ChainNext ==
  \/ start
  \/ RequestLoop
  \/ Upstream_publish
  \/ Upstream_theta
  \/ Upstream_phi

ChainSpec == ChainInit /\ [][ChainNext]_vars

\* the tile and an upstream tile that answers in its own time
LateNext ==
  \/ start
  \/ RequestLoop
  \/ Upstream_reply

LateSpec == ChainInit /\ [][LateNext]_vars

\* the tile between an upstream tile that answers in its own time and a
\* downstream neighbour that reconfigures and queries it
RetypeInit == InitWith({"IDENTITY"}, TileUpFrames, RetypeFrames)

RetypeNext ==
  \/ start
  \/ RequestLoop
  \/ ServiceLoop
  \/ Upstream_reply
  \/ TileDownstreamSend

RetypeSpec == RetypeInit /\ [][RetypeNext]_vars

\* the CPython build, start() called more than once
DesktopInit ==
  InitOn(is_cpython_desktop, {"IDENTITY"}, TileUpFrames, TileDownFrames, {Hooks})

DesktopNext ==
  \/ startOn(is_cpython_desktop)
  \/ start_again
  \/ RequestLoop
  \/ ServiceLoop
  \/ Upstream_reply
  \/ TileDownstreamSend

DesktopSpec == DesktopInit /\ [][DesktopNext]_vars

(***************************************************************************)
(* Properties of the tile.                                                 *)
(***************************************************************************)

\* C1: every (theta, phi) pair the service loop sends in a state response
\* is a pair the request loop published as one unit, or the initial state;
\* theta of one published state is never combined with phi of another.
C1_ServedPairWasPublished == served \subseteq published

C3_FallbackPublishesSentinel ==
  pubSrc[1] = "open_sync" => outState = <<0, 0>>

\* the single-qubit gates applied to the open-input state, in units of pi/8
OpenInputOutput ==
  [ IDENTITY |-> <<0, 0>>, PAULI_X |-> <<8, 0>>, PAULI_Y |-> <<8, 4>>,
    PAULI_Z |-> <<0, 0>>, HADAMARD |-> <<4, 0>>, RX_PI_DIV2 |-> <<4, -4>>,
    RY_PI_DIV2 |-> <<4, 0>>, RZ_PI_DIV2 |-> <<0, 0>>, RX_PI_DIV4 |-> <<2, -4>>,
    RY_PI_DIV4 |-> <<2, 0>>, RZ_PI_DIV4 |-> <<0, 0>>, PHASE |-> <<0, 0>>,
    TWIRL |-> <<0, 0>> ]

\* C3: an output published after a fallback (silent link or truncated
\* response) is the configured single-qubit gate applied to the open-input
\* state (0, 0): (pi, 0) for PAULI_X, (pi/2, 0) for HADAMARD, (0, 0) only for
\* the gates that leave |0> in place; a tile configured with a gate that is
\* not single-qubit publishes nothing after the fallback.
C3_FallbackPublishesGateOfOpenInput ==
  pubSrc[1] \in {"open_sync", "open_short"} =>
    /\ pubSrc[2] \in DOMAIN OpenInputOutput
    /\ outState = OpenInputOutput[pubSrc[2]]

\* the fallback of a PAULI_X tile on a silent link has been published
C3_Witness ==
  pubSrc = <<"open_sync", "PAULI_X">> /\ outState = <<8, 0>> /\ uart_in_rx = <<>>

\* C4: requestInputState returns decoded angles only when the 4 bytes of
\* the sync pattern were matched and the 12 bytes after them were available
\* and begin with opcode 0x81, and the angles are the two floats of those 12
\* bytes; when fewer than 12 bytes follow the sync within the timeout, it
\* returns (0, 0) and has read none of them.
C4_DecodedOnlyFromSyncedFullResponse ==
  /\ (reqPc = "operate" /\ inputSrc = "decoded") =>
       /\ uart_in_pos >= 16
       /\ SubSeq(uart_in_rx, uart_in_pos - 15, uart_in_pos - 12)
            = <<127, 255, 255, 255>>
       /\ uart_in_rx[uart_in_pos - 11] = 129
       /\ dataAvail >= 12
       /\ theta = unpack(SubSeq(uart_in_rx, uart_in_pos - 7, uart_in_pos - 4))
       /\ phi = unpack(SubSeq(uart_in_rx, uart_in_pos - 3, uart_in_pos))
  /\ (reqPc = "operate" /\ inputSrc = "open_short") =>
       /\ dataAvail < 12
       /\ <<theta, phi>> = <<0, 0>>
       /\ uart_in_pos >= 4
       /\ SubSeq(uart_in_rx, uart_in_pos - 3, uart_in_pos)
            = <<127, 255, 255, 255>>

\* a truncated response (sync, header, theta = pi/2) was answered with (0, 0)
C4_Witness ==
  /\ reqPc = "operate" /\ inputSrc = "open_short"
  /\ dataAvail = 8 /\ theta = 0
  /\ uart_in_rx = TruncatedFrame

\* the ids of the gate types that have a single-qubit operator, with the
\* names the configuration file is to hold for them
SingleQubitName ==
  [id \in (1..11) \cup {14, 15} |->
     CASE id = 1 -> "IDENTITY" [] id = 2 -> "PAULI_X" [] id = 3 -> "PAULI_Y"
       [] id = 4 -> "PAULI_Z" [] id = 5 -> "HADAMARD" [] id = 6 -> "RX_PI_DIV2"
       [] id = 7 -> "RY_PI_DIV2" [] id = 8 -> "RZ_PI_DIV2"
       [] id = 9 -> "RX_PI_DIV4" [] id = 10 -> "RY_PI_DIV4"
       [] id = 11 -> "RZ_PI_DIV4" [] id = 14 -> "PHASE" [] id = 15 -> "TWIRL"]

\* C5: after the service loop has processed a TypeChangeRequest carrying
\* the id of a single-qubit gate, gate.cfg holds that gate's upper-case name
\* and the active type and operator are that gate's, and a TypeRequest
\* answered after that change gets a TypeResponse whose b1 is that id.
C5_TypeChangeIsPersistedAndReported ==
  /\ lastChange \in DOMAIN SingleQubitName =>
       /\ gate_cfg = SingleQubitName[lastChange]
       /\ _type = SingleQubitName[lastChange]
       /\ _operator = SingleQubitName[lastChange]
  /\ lastTypeReply[2] \in DOMAIN SingleQubitName =>
       /\ lastTypeReply[1] = lastTypeReply[2]
       /\ \E n \in 1..Len(uart_out_tx) - 7 :
            SubSeq(uart_out_tx, n, n + 7)
              = <<127, 255, 255, 255, 130, lastTypeReply[2], 0, 0>>

\* a change to HADAMARD was processed and the TypeRequest after it answered
C5_Witness ==
  /\ lastTypeReply = <<5, 5>>
  /\ gate_cfg = "HADAMARD"
  /\ uart_out_tx = <<127, 255, 255, 255, 130, 5, 0, 0>>

\* C6: once stop() has returned with the service loop running, the
\* service loop exits, whatever arrives on the downstream link.
C6_StopEndsServiceLoop ==
  (stopPc = "returned" /\ ~serviceThreadRunning /\ svcPc \notin {"idle", "begin"})
    ~> (svcPc \in {"done", "crashed"})

\* C7: once stop() has cleared the flag of the running request loop, the
\* loop starts no further iteration and terminates (normally, or by the
\* exception its current iteration raises), whatever the upstream link
\* delivers.
C7_StopEndsRequestLoop ==
  /\ (stopPc # "idle" /\ ~requestThreadRunning /\ reqPc \notin {"idle", "begin"})
       ~> (reqPc \in {"done", "crashed"})
  /\ [][(stopPc # "idle" /\ ~requestThreadRunning /\ reqPc = "test")
          => (reqPc' \in {"test", "done"})]_vars

\* stopped in the middle of an iteration that then fell back and published
C7_Witness ==
  /\ stopPc # "idle" /\ ~requestThreadRunning
  /\ reqPc = "done" /\ pubSrc[1] = "open_sync" /\ tries = 3

\* C8: when 12 bytes with a wrong opcode follow a sync, requestInputState
\* raises nothing and the request loop goes on.
C8_WrongOpcodeRaisesNothing ==
  inputSrc = "invalid" => (reqErr = "none" /\ reqPc # "crashed")

\* C9: a TypeChangeRequest whose id cannot be applied leaves the service
\* loop running.
C9_BadTypeChangeKeepsServing ==
  (lastChange >= 0 /\ lastChange \notin DOMAIN SingleQubitName
     /\ ~HasOperator(componentTypeName(lastChange)))
    => (svcPc # "crashed" /\ svcErr = "none")

\* C10: after the request loop has ended with the dimension error, the
\* service loop begins no further state response.
C10_NoStateResponseAfterDimensionError ==
  [][(reqErr = "ValueError") => ~(svcPc = "cmd" /\ svcPc' = "theta")]_vars

\* C11: a TypeChangeRequest processed while no replace-operator callback
\* is registered ends serviceRequest with an error.
C11_MissingReplaceHookIsFatal ==
  (data # <<>> /\ data[1] = 3 /\ "replaceOperator" \notin hooks)
    => svcErr # "none"

\* what is left of the bytes written downstream once the complete state
\* responses (16 bytes) and type responses (8 bytes) are taken from the front
RECURSIVE AfterCompleteResponses(_)
AfterCompleteResponses(tx) ==
  IF Len(tx) >= 16 /\ SubSeq(tx, 1, 5) = <<127, 255, 255, 255, 129>>
    THEN AfterCompleteResponses(SubSeq(tx, 17, Len(tx)))
  ELSE IF Len(tx) >= 8 /\ SubSeq(tx, 1, 5) = <<127, 255, 255, 255, 130>>
    THEN AfterCompleteResponses(SubSeq(tx, 9, Len(tx)))
  ELSE tx

\* C12: a StateRequest processed while no get-state callback is registered
\* ends serviceRequest with a ValueError after the sync and the header only,
\* and a TypeRequest processed while no get-type callback is registered ends
\* it with a ValueError after the sync only: no complete response is sent.
C12_MissingGetHookRaises ==
  /\ (data # <<>> /\ data[1] = 1 /\ "getQuantumState" \notin hooks) =>
       /\ svcErr = "ValueError"
       /\ AfterCompleteResponses(uart_out_tx)
            = <<127, 255, 255, 255, 129, 1, 1, 0>>
  /\ (data # <<>> /\ data[1] = 2 /\ "getComponentType" \notin hooks) =>
       /\ svcErr = "ValueError"
       /\ AfterCompleteResponses(uart_out_tx) = <<127, 255, 255, 255>>
  /\ "getQuantumState" \notin hooks => served = {}
  /\ "getComponentType" \notin hooks => lastTypeReply = <<-1, -1>>

\* a type request was answered, then a state request met the missing callback
C12_Witness ==
  /\ hooks = {"getComponentType", "replaceOperator"}
  /\ data = <<1, 1, 1, 0>> /\ svcErr = "ValueError"
  /\ Len(uart_out_tx) = 16

\* C13: when waitForPattern has returned success, on either link, the
\* last 4 bytes consumed from that link are 7F FF FF FF in this order, and
\* nothing after them has been consumed.
C13_SuccessOnlyAfterFullPattern ==
  /\ reqPc = "bytes" =>
       /\ uart_in_pos >= 4
       /\ SubSeq(uart_in_rx, uart_in_pos - 3, uart_in_pos) = <<127, 255, 255, 255>>
  /\ svcPc = "bytes" =>
       /\ uart_out_pos >= 4
       /\ SubSeq(uart_out_rx, uart_out_pos - 3, uart_out_pos)
            = <<127, 255, 255, 255>>

\* a stray 7F made the first sync pattern fail; the second one was matched
C13_Witness ==
  /\ svcPc = "bytes" /\ uart_out_pos = 9
  /\ SubSeq(uart_out_rx, 1, 5) = <<127, 127, 255, 255, 255>>

\* the bytes that have arrived on the downstream link and are not consumed
UnreadDownstream == SubSeq(uart_out_rx, uart_out_pos + 1, Len(uart_out_rx))

\* C14: whatever bytes are on the downstream link, once two complete sync
\* patterns in a row are waiting behind them, the waitForPattern of the
\* service loop (timeout 0) returns success.
C14_ResynchronisesAfterStrayBytes ==
  (/\ svcPc = "sync"
   /\ Len(UnreadDownstream) >= 8
   /\ SubSeq(UnreadDownstream, Len(UnreadDownstream) - 7, Len(UnreadDownstream))
        = <<127, 255, 255, 255, 127, 255, 255, 255>>)
    ~> (svcPc = "bytes")

\* stray FF FF 7F, then two sync patterns: the first is lost, the second found
C14_Witness ==
  /\ svcPc = "bytes" /\ uart_out_pos = 11
  /\ uart_out_rx = <<255, 255, 127, 127, 255, 255, 255, 127, 255, 255, 255>>

\* C15: the waitForPattern of requestInputState (timeout 5 ms) adds 1 ms
\* for every pass that does not complete the pattern, consumes at most 4
\* bytes in a pass, and returns failure in the pass that finds 4 ms
\* accumulated, so after 5 passes, whatever bytes arrived; the waitForPattern
\* of serviceRequest (timeout 0) is left only with the pattern matched.
C15_TimeoutBoundsTheWait ==
  /\ [](reqPc = "sync" => timeEscape \in 0..4)
  /\ [][(reqPc = "sync" /\ <<reqPc, timeEscape, uart_in_pos>>'
                            # <<reqPc, timeEscape, uart_in_pos>>)
          => \/ /\ reqPc' = "bytes"
                /\ uart_in_pos' >= 4
                /\ SubSeq(uart_in_rx, uart_in_pos' - 3, uart_in_pos')
                     = <<127, 255, 255, 255>>
             \/ /\ reqPc' = "sync"
                /\ timeEscape' = timeEscape + 1
                /\ uart_in_pos' - uart_in_pos \in 0..4
             \/ /\ reqPc' \in {"send", "operate"}
                /\ timeEscape = 4
                /\ uart_in_pos' - uart_in_pos \in 0..4]_vars
  /\ [][(svcPc = "sync" /\ svcPc' # "sync")
          => /\ svcPc' = "bytes"
             /\ uart_out_pos' >= 4
             /\ SubSeq(uart_out_rx, uart_out_pos' - 3, uart_out_pos')
                  = <<127, 255, 255, 255>>]_vars

\* a wait that consumed three stray bytes and then timed out
C15_Witness ==
  /\ reqPc = "send" /\ tries = 1
  /\ uart_in_pos = 3 /\ uart_in_rx = <<127, 255, 255>>

\* C16: whenever the request loop is about to send a state request, the
\* request before it (if any) is resolved: either the previous call of
\* requestInputState has returned, with a decoded response or after the byte
\* wait ran out or after its last sync wait ran out, or the sync wait of the
\* previous request of this call has run its full 5 ms; and once the loop
\* has ended with an error it sends nothing more.
C16_OneRequestOutstanding ==
  /\ [](reqPc = "send" =>
          \/ /\ tries = 0
             /\ inputSrc \in {"none", "decoded", "open_sync", "open_short"}
             /\ inputSrc = "open_short" => bytesLapse = 9
             /\ inputSrc = "open_sync" => timeEscape = 4
          \/ /\ tries \in {1, 2}
             /\ timeEscape = 4)
  /\ [][(uart_in_tx' # uart_in_tx) => (reqPc = "send" /\ reqPc' = "sync")]_vars
  /\ [][(reqPc = "crashed") => (uart_in_tx' = uart_in_tx)]_vars

\* the third request of a call, sent after two full sync waits
C16_Witness ==
  /\ reqPc = "sync" /\ tries = 2 /\ timeEscape = 0
  /\ uart_in_tx = <<127, 255, 255, 255, 1, 1, 1, 0>>

\* C17: what the tile writes upstream is a request frame, what it writes
\* downstream is a sequence of response frames (the last one possibly under
\* way); a step that consumes from or writes to the downstream link is not a
\* step of the request loop, and a step that consumes from or writes to the
\* upstream link is not a step of the service loop.
C17_LinksHaveOneOwner ==
  /\ [](/\ uart_in_tx # <<>> =>
             /\ SubSeq(uart_in_tx, 1, 4) = <<127, 255, 255, 255>>
             /\ uart_in_tx[5] \in {1, 2, 3}
             /\ Len(uart_in_tx) = 8
        /\ AfterCompleteResponses(uart_out_tx)
             \in {<<>>, <<127, 255, 255, 255, 129, 1, 1, 0>>})
  /\ [][(uart_out_pos' # uart_out_pos \/ uart_out_tx' # uart_out_tx)
          => (reqVars' = reqVars /\ svcPc \in {"sync", "cmd", "phi"})]_vars
  /\ [][(uart_in_pos' # uart_in_pos \/ uart_in_tx' # uart_in_tx)
          => (svcVars' = svcVars /\ reqPc \in {"send", "sync", "read"})]_vars

\* a request was sent and an answer consumed upstream, and a state response
\* and a type response were written downstream
C17_Witness ==
  /\ uart_in_tx = <<127, 255, 255, 255, 1, 1, 1, 0>> /\ uart_in_pos = 16
  /\ Len(uart_out_tx) = 24 /\ uart_out_pos = 16

\* C18: the reply to a StateRequest is 16 bytes: the dispatch writes 7F
\* FF FF FF 81 01 01 00 and nothing else is written until the two angles
\* follow as 32-bit floats, theta (as read from the published output) and
\* then phi of the published output.
C18_StateResponseLayout ==
  /\ [](svcPc \in {"theta", "phi"} =>
          /\ Len(uart_out_tx) >= 8
          /\ SubSeq(uart_out_tx, Len(uart_out_tx) - 7, Len(uart_out_tx))
               = <<127, 255, 255, 255, 129, 1, 1, 0>>)
  /\ [][(svcPc = "cmd" /\ svcPc' = "theta") =>
          /\ data' = <<1, 1, 1, 0>>
          /\ Len(uart_out_tx') = Len(uart_out_tx) + 8]_vars
  /\ [][(svcPc = "theta" /\ svcPc' = "phi") => svcTheta' = outState[1]]_vars
  /\ [][(svcPc = "phi" /\ svcPc' = "test") =>
          /\ Len(uart_out_tx') = Len(uart_out_tx) + 8
          /\ SubSeq(uart_out_tx', 1, Len(uart_out_tx)) = uart_out_tx
          /\ unpack(SubSeq(uart_out_tx', Len(uart_out_tx) + 1,
                           Len(uart_out_tx) + 4)) = svcTheta
          /\ unpack(SubSeq(uart_out_tx', Len(uart_out_tx) + 5,
                           Len(uart_out_tx) + 8)) = outState[2]]_vars

\* the reply of a tile whose published output is (pi, 0)
C18_Witness ==
  /\ outState = <<8, 0>> /\ svcPc = "test"
  /\ uart_out_tx = <<127, 255, 255, 255, 129, 1, 1, 0, 219, 15, 73, 64, 0, 0, 0, 0>>

\* C19: the step of serviceRequest that processes a TypeChangeRequest
\* writes nothing downstream and leaves the service loop at its loop test
\* or ended by an error.
C19_TypeChangeWritesNothing ==
  [][(/\ svcPc = "cmd"
      /\ Len(uart_out_rx) - uart_out_pos >= 4
      /\ uart_out_rx[uart_out_pos + 1] = 3)
       => /\ uart_out_tx' = uart_out_tx
          /\ svcPc' \in {"cmd", "test", "crashed"}]_vars

\* a change to HADAMARD was processed and nothing is written
C19_Witness ==
  lastChange = 5 /\ _type = "HADAMARD" /\ svcPc = "test" /\ uart_out_tx = <<>>

\* C20: the step of serviceRequest that finds a command whose opcode is
\* none of 1, 2, 3 consumes its 4 bytes, writes nothing, leaves the gate,
\* the published output and gate.cfg as they are, raises nothing and returns
\* to the loop test.
C20_UnknownOpcodeIsIgnored ==
  [][(/\ svcPc = "cmd"
      /\ Len(uart_out_rx) - uart_out_pos >= 4
      /\ uart_out_rx[uart_out_pos + 1] \notin {1, 2, 3}
      /\ svcPc' # svcPc)
       => /\ svcPc' = "test"
          /\ uart_out_pos' = uart_out_pos + 4
          /\ UNCHANGED <<uart_out_tx, _type, _operator, _name, gate_cfg,
                         outState, svcErr>>]_vars

\* a command with opcode 4 was consumed and nothing happened
C20_Witness ==
  /\ data = <<4, 0, 0, 0>> /\ svcPc = "test" /\ svcErr = "none"
  /\ uart_out_pos = 8 /\ uart_out_tx = <<>> /\ gate_cfg = _type

\* C21: the byte wait of serviceRequest lasts at most 10 polls of 1 ms;
\* when serviceRequest then finds fewer than 4 bytes behind the sync it
\* reads none of them, dispatches no command, writes nothing, changes
\* neither the gate nor gate.cfg, raises nothing, and returns to the loop
\* test, from where the running loop waits for sync again.
C21_ShortCommandIsAbandoned ==
  /\ [](svcPc \in {"bytes", "cmd"} => svcLapse \in 0..9)
  /\ [][(svcPc = "cmd" /\ Len(uart_out_rx) - uart_out_pos < 4 /\ svcPc' # svcPc)
          => /\ svcPc' = "test"
             /\ svcLapse = 9
             /\ UNCHANGED <<uart_out_pos, uart_out_tx, data, _type, _operator,
                            _name, gate_cfg, svcErr, served>>]_vars
  /\ [][(svcPc = "test" /\ serviceThreadRunning /\ svcPc' # svcPc)
          => svcPc' = "sync"]_vars

\* one byte followed the sync; the wait ran out and the loop is back at its
\* test with that byte unread
C21_Witness ==
  /\ svcPc = "test" /\ svcLapse = 9 /\ data = <<>>
  /\ uart_out_rx = <<127, 255, 255, 255, 255>> /\ uart_out_pos = 4
  /\ uart_out_tx = <<>>

\* C22: a tile restarted after its service loop processed a
\* TypeChangeRequest for a single-qubit gate (and no later one) is constructed
\* with that gate: gate.cfg holds the gate's name, and the type, the name and
\* the operator of the new tile are that gate's, the operator being 2x2.
C22_RestartKeepsChangedGate ==
  (svcPc = "idle" /\ lastChange \in DOMAIN SingleQubitName) =>
    /\ gate_cfg = SingleQubitName[lastChange]
    /\ _type = SingleQubitName[lastChange]
    /\ _name = SingleQubitName[lastChange]
    /\ _operator = SingleQubitName[lastChange]
    /\ GateTypes[_type] = lastChange
    /\ OperatorIs2x2(GateOperators[_operator])

\* a tile that was changed to RY_PI_DIV4 and then to TWIRL, restarted
C22_Witness ==
  /\ svcPc = "idle" /\ lastChange = 15 /\ downBudget = 0
  /\ _type = "TWIRL" /\ _operator = "TWIRL" /\ gate_cfg = "TWIRL"

\* C23: every QuStates object reports the number of qubits its own
\* constructor was given, however many objects were constructed before it.
C23_ContainerHoldsItsOwnQubits ==
  \A c \in 1..Len(containers) : getNumBits(c) = containers[c]

\* C24: on the tile build no routine has an execution context before
\* start(); the step start() takes creates exactly one thread, for the
\* request loop, and runs the service loop by a direct call in the caller;
\* from then on, while the loops run, these two contexts are all there are.
C24_OneThreadAndOneDirectCall ==
  /\ [](/\ Len(contexts) <= 2
        /\ (reqPc = "idle" /\ svcPc = "idle") => contexts = <<>>
        /\ (reqPc # "idle" \/ svcPc # "idle") =>
             contexts = << <<"updateStateRoutine", "thread">>,
                           <<"serviceThread", "call">> >>)
  /\ [][(contexts' # contexts) => (reqPc = "idle" /\ reqPc' = "begin"
                                     /\ svcPc = "idle" /\ svcPc' = "begin")]_vars

\* both loops are in the middle of an iteration, in their two contexts
C24_Witness ==
  /\ reqPc = "sync" /\ timeEscape = 2 /\ svcPc = "cmd"
  /\ Len(contexts) = 2 /\ contexts[1][2] = "thread" /\ contexts[2][2] = "call"

\* C25: whatever angles the constructor is given, the qubit it constructs
\* has 0 <= theta <= pi and 0 <= phi < 2 pi.
C25_ConstructorRange ==
  (last.call = "QuStates" /\ last.error = "none") =>
    \A i \in 1..Len(states) :
      /\ 0 <= states[i][1] /\ states[i][1] <= PI
      /\ 0 <= states[i][2] /\ states[i][2] < 2 * PI

\* the canonical range of a qubit: 0 <= theta <= pi, 0 <= phi < 2 pi
Canonical(q) == 0 <= q[1] /\ q[1] <= PI /\ 0 <= q[2] /\ q[2] < 2 * PI

\* C26: a canonical qubit whose standard-basis amplitudes are read and
\* written back has the (theta, phi) it had before.
C26_BasisRoundTrip ==
  (last.call = "setStandardBasisState" /\ Canonical(last.before)) =>
    states[last.index] = last.before

\* C27: a canonical qubit operated with IDENTITY (update on) has the
\* (theta, phi) it had before.
C27_IdentityLeavesAngles ==
  (last.call = "operate" /\ last.gate = "IDENTITY" /\ Canonical(last.before)) =>
    states[last.index] = last.before

\* C28: a qubit at (theta, phi) = (0, 0) operated with PAULI_X (update
\* on) is at (pi, 0), and the call raises nothing.
C28_PauliXOnZero ==
  (last.call = "operate" /\ last.gate = "PAULI_X" /\ last.before = <<0, 0>>) =>
    (states[last.index] = <<PI, 0>> /\ last.error = "none")

\* QuStates(num_bits=1), then states[0].operate(PAULI_X)
C28_Witness ==
  /\ last.call = "operate" /\ last.gate = "PAULI_X" /\ last.before = <<0, 0>>
  /\ states = << <<8, 0>> >>

\* C29: operate with an operator that does not have 2 rows of 2 entries
\* raises the dimension error (a ValueError) and changes no qubit; with a
\* 2x2 operator it raises nothing.
C29_WrongDimensionIsRejected ==
  /\ [](last.call = "operate" =>
          LET rows == GateOperators[last.gate].value IN
          IF Len(rows) # 2 \/ Len(rows[1]) # 2
            THEN last.error = "ValueError" /\ states[last.index] = last.before
            ELSE last.error = "none")
  /\ [][(last'.call = "operate" /\ last'.error # "none") => states' = states]_vars

\* TOFFOLI offered to a single qubit at (pi/2, 3 pi/2)
C29_Witness ==
  /\ last.call = "operate" /\ last.gate = "TOFFOLI" /\ last.error = "ValueError"
  /\ states = << <<4, 12>> >>

\* the inner product of two rows over their first k entries
RECURSIVE RowDot(_, _, _)
RowDot(u, v, k) ==
  IF k = 0 THEN ZERO
  ELSE cAdd(RowDot(u, v, k - 1), cMul(u[k], cConj(v[k])))

\* a square matrix whose rows are orthogonal and of one positive norm: a
\* unitary matrix up to the positive factor the catalog entries are taken to
IsUnitary(operator) ==
  LET m == operator.value
      n == Len(m)
  IN /\ \A i \in 1..n : Len(m[i]) = n
     /\ \A i, j \in 1..n :
          IF i = j
            THEN /\ RowDot(m[i], m[i], n) = RowDot(m[1], m[1], n)
                 /\ IsPosReal(RowDot(m[i], m[i], n))
            ELSE RowDot(m[i], m[j], n) = ZERO

\* exactly one entry that is not zero in every row and in every column
OneEntryPerLine(operator) ==
  LET m == operator.value
      n == Len(m)
  IN /\ \A i \in 1..n : Cardinality({j \in 1..n : m[i][j] # ZERO}) = 1
     /\ \A j \in 1..n : Cardinality({i \in 1..n : m[i][j] # ZERO}) = 1

\* C30: the operator the tile holds, whichever member of the catalog a
\* type change has put there, is a unitary matrix, and if it is one of
\* IDENTITY, PAULI_X, PAULI_Z, CONTROLLED_NOT, CONTROLLED_Z, SWAP, TOFFOLI it
\* has exactly one non-zero entry in every row and in every column.
C30_OperatorIsUnitary ==
  /\ IsUnitary(GateOperators[_operator])
  /\ _operator \in {"IDENTITY", "PAULI_X", "PAULI_Z", "CONTROLLED_NOT",
                     "CONTROLLED_Z", "SWAP", "TOFFOLI"}
       => OneEntryPerLine(GateOperators[_operator])

\* C31: what sendStateRequest, sendComponentTypeRequest and
\* sendComponentTypeChangeRequest(id) of the downstream neighbour put on the
\* link is 8 bytes each: 7F FF FF FF and then 01 01 01 00, 02 00 00 00 and
\* 03 id 00 00.
C31_RequestFramesAreEightBytes ==
  [][(uart_out_rx' # uart_out_rx) =>
       LET sent == SubSeq(uart_out_rx', Len(uart_out_rx) + 1, Len(uart_out_rx'))
       IN /\ Len(sent) = 8
          /\ SubSeq(uart_out_rx', 1, Len(uart_out_rx)) = uart_out_rx
          /\ SubSeq(sent, 1, 4) = <<127, 255, 255, 255>>
          /\ sent[5] = 1 => SubSeq(sent, 5, 8) = <<1, 1, 1, 0>>
          /\ sent[5] = 2 => SubSeq(sent, 5, 8) = <<2, 0, 0, 0>>
          /\ sent[5] = 3 => (sent[6] \in 0..255 /\ sent[7] = 0 /\ sent[8] = 0)]_vars

\* a change request for HADAMARD and then a type request are on the link
C31_Witness ==
  uart_out_rx = <<127, 255, 255, 255, 3, 5, 0, 0, 127, 255, 255, 255, 2, 0, 0, 0>>

\* C32: every output the downstream tile publishes from a decoded
\* response is the operator it applied, applied to a state the upstream tile
\* had published.
C32_OutputIsOperatorOfPublishedInput ==
  pubSrc[1] = "decoded" =>
    \E st \in up_published :
      outState = operate(QuantumBitState(st[1], st[2]), GateOperators[pubSrc[2]])

\* C33: the step of serviceRequest that processes a TypeChangeRequest
\* whose id is the id of no gate with an operator (an id GateTypes does not
\* have, or 0 for UNDEFINED) leaves gate.cfg, the type and the operator as
\* they are.
C33_UnusableTypeChangeChangesNothing ==
  [][(/\ svcPc = "cmd"
      /\ Len(uart_out_rx) - uart_out_pos >= 4
      /\ uart_out_rx[uart_out_pos + 1] = 3
      /\ uart_out_rx[uart_out_pos + 2]
           \notin (1..11) \cup {14, 15, 65, 66, 67, 129})
       => UNCHANGED <<gate_cfg, _type, _operator, _name>>]_vars

\* C34: once exactly the four sync bytes have arrived on the downstream
\* link, in order and in whatever pieces, while the waitForPattern of the
\* service loop (timeout 0) is polling and has not consumed them all, that
\* waitForPattern returns success (unless the peer sends more than these).
C34_PiecewiseSyncIsMatched ==
  (svcPc = "sync" /\ uart_out_rx = <<127, 255, 255, 255>> /\ uart_out_pos < 4)
    ~> (svcPc = "bytes" \/ uart_out_rx # <<127, 255, 255, 255>>)

\* C35: when the service loop enters waitForPattern (timeout 0) and the
\* downstream link holds whatever bytes followed by one complete sync
\* pattern, nothing of it consumed so far, the waitForPattern returns
\* success.
C35_FirstSyncIsNeverSkipped ==
  (/\ svcPc = "sync" /\ uart_out_pos = 0
   /\ Len(uart_out_rx) >= 4
   /\ SubSeq(uart_out_rx, Len(uart_out_rx) - 3, Len(uart_out_rx))
        = <<127, 255, 255, 255>>)
    ~> (svcPc = "bytes")

\* the reply in the k-th complete frame on the upstream link answers the
\* k-th request that reached the upstream tile
AcceptedReply == up_requests[uart_in_pos \div (4 + ResponseLength)]

\* C36: a state response the request loop has just accepted is the reply to
\* the state request it sent last.
C36_AcceptedReplyAnswersLatestRequest ==
  (reqPc = "operate" /\ inputSrc = "decoded") => AcceptedReply.latest

\* C37: once stop() has returned, requestThreadRunning and
\* serviceThreadRunning are false, whenever after start() it was called.
C37_FlagsStayFalseAfterStop ==
  stopPc = "returned" => (~requestThreadRunning /\ ~serviceThreadRunning)

\* C38: once a TypeResponse has reported PAULI_X after the change to it,
\* the output getQuantumState reads for a StateResponse was computed with the
\* operator of PAULI_X (or is still the one the constructor set).
C38_ServedOutputUsesReportedGate ==
  (/\ svcPc \in {"theta", "phi"}
   /\ lastTypeReply = <<GateTypes.PAULI_X, GateTypes.PAULI_X>>
   /\ lastChange = GateTypes.PAULI_X)
    => pubSrc[2] \in {"PAULI_X", "none"}

\* C39: on the CPython build, however often and however soon after one
\* another start() is called, at most one thread runs updateStateRoutine and
\* at most one runs serviceThread.
C39_SecondStartCreatesNoLoop ==
  Running("updateStateRoutine") <= 1 /\ Running("serviceThread") <= 1

\* C40: the output the tile holds for its downstream neighbour, and every
\* output it has published, has 0 <= theta <= pi and 0 <= phi < 2 pi.
C40_PublishedOutputIsCanonical ==
  Canonical(outState) /\ \A q \in published : Canonical(q)

=============================================================================
